---------------------------- MODULE Spec2Model ----------------------------
(***************************************************************************)
(* Derivative dynamic time warping (ddtw) of aeon/distances/_ddtw.py.      *)
(*                                                                         *)
(* Numbers.  Series values are small integers.  The derivative has the     *)
(* coefficients 0.25, 0.5 and 0.75, so every derivative value is held in   *)
(* quarters (the integer 4*q'), and every cost, a sum of squared           *)
(* differences of derivative values, in sixteenths.  On these values the   *)
(* floating point arithmetic of the code is exact, fastmath included.      *)
(*                                                                         *)
(* Arrays.  A 2-d numpy array is a record [shape, data]: shape = <<r, c>>  *)
(* and data[i][j] for i in 1..r, j in 1..c (1-based here, 0-based in the   *)
(* code).  The shape is kept apart from the data because an array may      *)
(* have no row and still have columns, as q[2:] has for a series of        *)
(* length 2.  A 1-d array is a sequence.                                   *)
(***************************************************************************)
EXTENDS Integers, Sequences, FiniteSets, TLC

VARIABLES
    x, y,        \* the two caller-owned series, of shape (d, m1) and (d', m2)
    closure,     \* the callable the last factory call returned, or NoClosure
    ret,         \* what the last call of that callable returned or raised
    trace,       \* the steps executed by the factory call and the last call
    tIn, tOut    \* the derivative transforms: the input and the two outputs

vars == <<x, y, closure, ret, trace, tIn, tOut>>

---------------------------------------------------------------------------
(* Bounds of the model *)

\* series have 1..MaxLen timepoints
MaxLen == 5

\* a window is absent or k/WinDen for k in 0..WinDen
WinDen == 3

\* the values a timepoint takes
Values == {0, 1}

\* the numbers of dimensions of the multivariate inputs
Dims == {1, 2}

---------------------------------------------------------------------------
(* numpy arrays *)

Max(a, b) == IF a >= b THEN a ELSE b
Min(a, b) == IF a <= b THEN a ELSE b
Abs(a) == IF a >= 0 THEN a ELSE 0 - a

\* A sequence written as a function, as the tuple of its values: the same
\* sequence, computed once instead of at each use.
Tuple(f) == f \o <<>>

\* a.transpose()
Transpose(a) ==
    [shape |-> <<a.shape[2], a.shape[1]>>,
     data  |-> Tuple([i \in 1..a.shape[2] |->
                    Tuple([j \in 1..a.shape[1] |-> a.data[j][i]])])]

\* The bounds of the Python slice [start:stop] of a sequence of length n,
\* start >= 0, a negative stop counting from the end: the 0-based indices
\* lo..hi-1 are kept, none when hi <= lo.
SliceLo(n, start) == Min(start, n)
SliceHi(n, stop) == IF stop < 0 THEN Max(n + stop, 0) ELSE Min(stop, n)
SliceLen(n, start, stop) == Max(SliceHi(n, stop) - SliceLo(n, start), 0)

\* a[start:stop], a slice of the rows of a 2-d array
RowSlice(a, start, stop) ==
    [shape |-> <<SliceLen(a.shape[1], start, stop), a.shape[2]>>,
     data  |-> Tuple([i \in 1..SliceLen(a.shape[1], start, stop) |->
                    a.data[SliceLo(a.shape[1], start) + i]])]

\* s[start:stop] of a 1-d array
Slice1(s, start, stop) ==
    Tuple([i \in 1..SliceLen(Len(s), start, stop) |->
               s[SliceLo(Len(s), start) + i]])

---------------------------------------------------------------------------
(* The derivative *)

\* 0.25 * a + 0.5 * b - 0.75 * c, elementwise on arrays of one shape, in quarters
SlopeOf(a, b, c) ==
    [shape |-> a.shape,
     data  |-> Tuple([i \in 1..a.shape[1] |-> Tuple([j \in 1..a.shape[2] |->
                    a.data[i][j] + 2 * b.data[i][j] - 3 * c.data[i][j]])])]

\* average_of_slope with its two transpositions left out: the slices are
\* then taken along the dimensions
average_of_slope_no_transpose(q) ==
    SlopeOf(RowSlice(q, 2, q.shape[1]), RowSlice(q, 1, -1), RowSlice(q, 0, -2))

\* average_of_slope with every slice one timepoint too long:
\* 0.25 * q[1:] + 0.5 * q[1:] - 0.75 * q[:-1]
average_of_slope_long_slices(q) ==
    LET qt == Transpose(q)
        q2 == SlopeOf(RowSlice(qt, 1, qt.shape[1]),
                      RowSlice(qt, 1, qt.shape[1]),
                      RowSlice(qt, 0, -1))
    IN  Transpose(q2)

\* average_of_slope on a 2-d series of shape (d, m); q[2:] is q[2:m]
average_of_slope(q) ==
    LET qt == Transpose(q)
        q2 == SlopeOf(RowSlice(qt, 2, qt.shape[1]),
                      RowSlice(qt, 1, -1),
                      RowSlice(qt, 0, -2))
    IN  Transpose(q2)

\* average_of_slope on one row, a 1-d array: its transpose is the array itself
average_of_slope_1d(q) ==
    LET a == Slice1(q, 2, Len(q))
        b == Slice1(q, 1, -1)
        c == Slice1(q, 0, -2)
    IN  Tuple([i \in 1..Len(a) |-> a[i] + 2 * b[i] - 3 * c[i]])

\* np.array(rows) of a list of d >= 1 rows of one length
NpArray(rows) ==
    [shape |-> <<Len(rows), Len(rows[1])>>, data |-> rows]

\* average_of_slope_transform: the rows of X in turn, gathered in an array
average_of_slope_transform(X) ==
    NpArray(Tuple([k \in 1..X.shape[1] |-> average_of_slope_1d(X.data[k])]))

\* no array: the value of what has not been computed
NoArray == [shape |-> <<0, 0>>, data |-> <<>>]

\* the default of the factories' compute_derivative parameter
compute_derivative(q) == average_of_slope(q)

---------------------------------------------------------------------------
(* The bounding matrix (aeon.distances._bounding_matrix, not in src/) *)

\* A window is <<>> when absent (None) and <<k>> for the fraction k/WinDen.
Windows == {<<>>} \cup {<<k>> : k \in 0..WinDen}

\* Cell (i, j), 0-based, of the band for lengths m1 and m2:
\* |i * (m2/m1) - j| <= w * max(m1, m2), cleared of its fractions.
InBand(i, j, m1, m2, k) ==
    Abs(i * m2 - j * m1) * WinDen <= k * Max(m1, m2) * m1

\* create_bounding_matrix(m1, m2, window): an (m1 x m2) boolean mask
create_bounding_matrix(m1, m2, window) ==
    [shape |-> <<m1, m2>>,
     data  |-> Tuple([i \in 1..m1 |-> Tuple([j \in 1..m2 |->
                    IF window = <<>> THEN TRUE
                    ELSE InBand(i - 1, j - 1, m1, m2, window[1])])])]

\* The derivative cells (1-based) that lie outside a mask: the compiled code
\* does not check the index, and what it reads there is not determined.
OutOfMask(bm, n1, n2) ==
    {c \in (1..n1) \X (1..n2) : c[1] > bm.shape[1] \/ c[2] > bm.shape[2]}

\* bounding_matrix[i, j] as the cost matrix reads it; g gives the cells outside
MaskAt(bm, g, i, j) ==
    IF i <= bm.shape[1] /\ j <= bm.shape[2] THEN bm.data[i][j] ELSE g[<<i, j>>]

---------------------------------------------------------------------------
(* The cost matrix (aeon.distances._dtw._dtw_cost_matrix, not in src/) *)

\* +infinity: costs are sums of squares, so no cost is negative
Inf == -1

PlusCost(a, b) == IF a = Inf \/ b = Inf THEN Inf ELSE a + b
MinCost(a, b) == IF a = Inf THEN b ELSE IF b = Inf THEN a ELSE Min(a, b)

\* the squared Euclidean distance of timepoint i of xd and timepoint j of yd
RECURSIVE SumSquares(_, _, _, _, _)
SumSquares(xd, yd, i, j, k) ==
    IF k = 0 THEN 0
    ELSE (xd.data[k][i] - yd.data[k][j]) * (xd.data[k][i] - yd.data[k][j])
         + SumSquares(xd, yd, i, j, k - 1)

pointwise_distance(xd, yd, i, j) == SumSquares(xd, yd, i, j, xd.shape[1])

\* Row i >= 1 of the grid from row i-1 (prev), columns 0..n2 held at 1..n2+1:
\* acc holds the columns 0..j-1 already computed.
RECURSIVE CostRow(_, _, _, _, _, _, _, _)
CostRow(xd, yd, bm, g, i, prev, j, acc) ==
    IF j > yd.shape[2] THEN acc
    ELSE LET cell == IF MaskAt(bm, g, i, j)
                     THEN PlusCost(pointwise_distance(xd, yd, i, j),
                                   MinCost(prev[j + 1], MinCost(acc[j], prev[j])))
                     ELSE Inf
         IN  CostRow(xd, yd, bm, g, i, prev, j + 1, Append(acc, cell))

\* rows 0..i-1 are in acc; the rows up to n1 are added
RECURSIVE CostRows(_, _, _, _, _, _)
CostRows(xd, yd, bm, g, i, acc) ==
    IF i > xd.shape[2] THEN acc
    ELSE CostRows(xd, yd, bm, g, i + 1,
                  Append(acc, CostRow(xd, yd, bm, g, i, acc[i], 1, <<Inf>>)))

\* row 0 of the grid: the origin 0, the rest of the border +infinity
BorderRow(n2) == Tuple([j \in 1..(n2 + 1) |-> IF j = 1 THEN 0 ELSE Inf])

\* _dtw_cost_matrix(xd, yd, bm): the (n1+1) x (n2+1) grid, or the error raised
dtw_cost_matrix(xd, yd, bm, g) ==
    IF xd.shape[2] < 1 \/ yd.shape[2] < 1
    THEN [status |-> "ValueError", grid |-> <<>>]
    ELSE IF xd.shape[1] # yd.shape[1]
    THEN [status |-> "ShapeError", grid |-> <<>>]
    ELSE [status |-> "ok",
          grid   |-> CostRows(xd, yd, bm, g, 1, <<BorderRow(yd.shape[2])>>)]

\* cost_matrix[-1, -1]
LastCell(grid) == grid[Len(grid)][Len(grid[Len(grid)])]

---------------------------------------------------------------------------
(* The alignment path (aeon.distances._alignment_paths, not in src/) *)

\* The predecessors of grid cell (i, j) in the order that breaks ties:
\* the diagonal one, the one above, the one to the left.
Predecessors(i, j) == << <<i - 1, j - 1>>, <<i - 1, j>>, <<i, j - 1>> >>

\* whether predecessor p may be moved to: it is in the grid and its cost finite
Eligible(grid, p) ==
    p[1] >= 0 /\ p[2] >= 0 /\ grid[p[1] + 1][p[2] + 1] # Inf

\* whether predecessor number k is the one chosen: it is eligible, cheaper than
\* those before it and no dearer than those after it
Chosen(grid, ps, k) ==
    /\ Eligible(grid, ps[k])
    /\ \A l \in 1..3 :
          (l # k /\ Eligible(grid, ps[l])) =>
              IF l < k
              THEN grid[ps[k][1] + 1][ps[k][2] + 1] < grid[ps[l][1] + 1][ps[l][2] + 1]
              ELSE grid[ps[k][1] + 1][ps[k][2] + 1] <= grid[ps[l][1] + 1][ps[l][2] + 1]

\* The walk back from grid cell (i, j): each cell visited is collected in the
\* 0-based coordinates of the series, (i-1, j-1).  It ends at the first cell of
\* the series, and at a cell that has no eligible predecessor.
RECURSIVE WalkBack(_, _, _, _)
WalkBack(grid, i, j, acc) ==
    LET here == Append(acc, <<i - 1, j - 1>>)
        ps   == Predecessors(i, j)
    IN  IF i = 1 /\ j = 1 THEN here
        ELSE IF \E k \in 1..3 : Chosen(grid, ps, k)
        THEN LET k == CHOOSE l \in 1..3 : Chosen(grid, ps, l)
             IN  WalkBack(grid, ps[k][1], ps[k][2], here)
        ELSE here

Reverse(s) == Tuple([k \in 1..Len(s) |-> s[Len(s) + 1 - k]])

\* compute_min_return_path(cost_matrix): the cells in start-to-end order
compute_min_return_path(grid) ==
    Reverse(WalkBack(grid, Len(grid) - 1, Len(grid[1]) - 1, <<>>))

---------------------------------------------------------------------------
(* The callables the factories return.  Each gets the _bounding_matrix its  *)
(* factory captured; g is what is read outside that matrix.  A callable     *)
(* returns [status, returns]: the tuple returned, or the error raised.      *)

Raised(status) == [status |-> status, returns |-> <<>>]
Returned(values) == [status |-> "ok", returns |-> values]

\* cost_matrix[0, -1]: the first row's last cell within the series
LastOfFirstRow(grid) == grid[2][Len(grid[2])]

\* numba_ddtw_distance returning cost_matrix[0, -1] for cost_matrix[-1, -1]
numba_ddtw_distance_first_row(bm, g, px, py) ==
    LET dx == compute_derivative(px)
        dy == compute_derivative(py)
        cost_matrix == dtw_cost_matrix(dx, dy, bm, g)
    IN  IF cost_matrix.status # "ok" THEN Raised(cost_matrix.status)
        ELSE Returned(<<LastOfFirstRow(cost_matrix.grid)>>)

\* numba_ddtw_distance without its line _x = compute_derivative(_x)
numba_ddtw_distance_raw_x(bm, g, px, py) ==
    LET dy == compute_derivative(py)
        cost_matrix == dtw_cost_matrix(px, dy, bm, g)
    IN  IF cost_matrix.status # "ok" THEN Raised(cost_matrix.status)
        ELSE Returned(<<LastCell(cost_matrix.grid)>>)

\* numba_ddtw_distance of _distance_factory
numba_ddtw_distance(bm, g, px, py) ==
    LET dx == compute_derivative(px)
        dy == compute_derivative(py)
        cost_matrix == dtw_cost_matrix(dx, dy, bm, g)
    IN  IF cost_matrix.status # "ok" THEN Raised(cost_matrix.status)
        ELSE Returned(<<LastCell(cost_matrix.grid)>>)

\* cost_matrix[-1, 0]: the last row's first cell within the series
FirstOfLastRow(grid) == grid[Len(grid)][2]

\* the branch return_cost_matrix is True returning cost_matrix[-1, 0]
numba_ddtw_distance_alignment_path_cm_first(bm, g, px, py) ==
    LET dx == compute_derivative(px)
        dy == compute_derivative(py)
        cost_matrix == dtw_cost_matrix(dx, dy, bm, g)
    IN  IF cost_matrix.status # "ok" THEN Raised(cost_matrix.status)
        ELSE Returned(<<compute_min_return_path(cost_matrix.grid),
                        FirstOfLastRow(cost_matrix.grid),
                        cost_matrix.grid>>)

\* numba_ddtw_distance_alignment_path, the branch return_cost_matrix is True
numba_ddtw_distance_alignment_path_cm(bm, g, px, py) ==
    LET dx == compute_derivative(px)
        dy == compute_derivative(py)
        cost_matrix == dtw_cost_matrix(dx, dy, bm, g)
    IN  IF cost_matrix.status # "ok" THEN Raised(cost_matrix.status)
        ELSE Returned(<<compute_min_return_path(cost_matrix.grid),
                        LastCell(cost_matrix.grid),
                        cost_matrix.grid>>)

\* the other branch without its line _y = compute_derivative(_y)
numba_ddtw_distance_alignment_path_raw_y(bm, g, px, py) ==
    LET dx == compute_derivative(px)
        cost_matrix == dtw_cost_matrix(dx, py, bm, g)
    IN  IF cost_matrix.status # "ok" THEN Raised(cost_matrix.status)
        ELSE Returned(<<compute_min_return_path(cost_matrix.grid),
                        LastCell(cost_matrix.grid)>>)

\* numba_ddtw_distance_alignment_path, the other branch
numba_ddtw_distance_alignment_path(bm, g, px, py) ==
    LET dx == compute_derivative(px)
        dy == compute_derivative(py)
        cost_matrix == dtw_cost_matrix(dx, dy, bm, g)
    IN  IF cost_matrix.status # "ok" THEN Raised(cost_matrix.status)
        ELSE Returned(<<compute_min_return_path(cost_matrix.grid),
                        LastCell(cost_matrix.grid)>>)

\* the steps a call executes, by the status it ends with
CallSteps(kind, status) ==
    <<"compute_derivative", "compute_derivative", "_dtw_cost_matrix">>
    \o (IF status # "ok" THEN <<status>>
        ELSE IF kind = "path" THEN <<"compute_min_return_path", "return">>
        ELSE <<"return">>)

---------------------------------------------------------------------------
(* The factories.  A closure holds what the factory computed, the           *)
(* _bounding_matrix, and which callable it is; built_for and window record  *)
(* the arguments that matrix was computed from.  A factory reads nothing    *)
(* an earlier call left behind, so a behaviour follows one callable: it is  *)
(* built once, from x and y, and then called any number of times.           *)

\* the _bounding_matrix computed from shape[0], the numbers of dimensions
FactoryBoundingMatrix_shape0(fx, fy, window) ==
    create_bounding_matrix(fx.shape[1], fy.shape[1], window)

\* the _bounding_matrix computed from the two lengths the other way round
FactoryBoundingMatrix_swapped(fx, fy, window) ==
    create_bounding_matrix(fy.shape[2], fx.shape[2], window)

\* the _bounding_matrix both factories compute first, from the raw lengths
FactoryBoundingMatrix(fx, fy, window) ==
    create_bounding_matrix(fx.shape[2], fy.shape[2], window)

NoClosure ==
    [kind |-> "none", return_cost_matrix |-> FALSE,
     bounding_matrix |-> [shape |-> <<0, 0>>, data |-> <<>>],
     built_for |-> <<0, 0>>, window |-> <<>>]

\* Nothing called yet.  Of a call, ret keeps what it returned or raised and,
\* for the record, its arguments, the mask it read and what it read outside it.
NoRet ==
    [status |-> "none", returns |-> <<>>, args |-> <<>>,
     mask |-> [shape |-> <<0, 0>>, data |-> <<>>], outside |-> <<>>]

\* _distance_factory(x, y, window)
DistanceFactory(window) ==
    /\ closure = NoClosure
    /\ closure' = [kind |-> "distance", return_cost_matrix |-> FALSE,
                   bounding_matrix |-> FactoryBoundingMatrix(x, y, window),
                   built_for |-> <<x.shape[2], y.shape[2]>>, window |-> window]
    /\ ret' = NoRet
    /\ trace' = <<"create_bounding_matrix">>
    /\ UNCHANGED <<x, y, tIn, tOut>>

\* _distance_alignment_path_factory(x, y, return_cost_matrix, window)
DistanceAlignmentPathFactory(return_cost_matrix, window) ==
    /\ closure = NoClosure
    /\ closure' = [kind |-> "path", return_cost_matrix |-> return_cost_matrix,
                   bounding_matrix |-> FactoryBoundingMatrix(x, y, window),
                   built_for |-> <<x.shape[2], y.shape[2]>>, window |-> window]
    /\ ret' = NoRet
    /\ trace' = <<"create_bounding_matrix">>
    /\ UNCHANGED <<x, y, tIn, tOut>>

\* the callable of the closure, applied
Apply(c, g, px, py) ==
    IF c.kind = "distance"
    THEN numba_ddtw_distance(c.bounding_matrix, g, px, py)
    ELSE IF c.return_cost_matrix
    THEN numba_ddtw_distance_alignment_path_cm(c.bounding_matrix, g, px, py)
    ELSE numba_ddtw_distance_alignment_path(c.bounding_matrix, g, px, py)

\* A call of the callable on (px, py).  The callable takes any two series:
\* those the factory was given, or others.
Call(px, py) ==
    /\ closure.kind # "none"
    /\ \E g \in [OutOfMask(closure.bounding_matrix,
                           px.shape[2] - 2, py.shape[2] - 2) -> BOOLEAN] :
          LET r == Apply(closure, g, px, py)
          IN  /\ ret' = [status |-> r.status, returns |-> r.returns,
                         args |-> <<px, py>>,
                         mask |-> closure.bounding_matrix, outside |-> g]
              /\ trace' = <<"create_bounding_matrix">>
                          \o CallSteps(closure.kind, r.status)
    /\ UNCHANGED <<x, y, closure, tIn, tOut>>

\* the callable called on the series its factory was given
CallSame == Call(x, y)

\* the callable called on other series: the same two, the other way round
CallOther == Call(y, x)

\* the derivative transforms of the series tIn, by both functions
Transform ==
    /\ tOut = <<NoArray, NoArray>>
    /\ tOut' = <<average_of_slope(tIn), average_of_slope_transform(tIn)>>
    /\ UNCHANGED <<x, y, closure, ret, trace, tIn>>

---------------------------------------------------------------------------
(* Inputs and specifications *)

\* the series of shape (d, m) over Values
Series(d, m) ==
    {[shape |-> <<d, m>>, data |-> f] : f \in [1..d -> [1..m -> Values]]}

\* Those whose rows start at 0.  Adding a constant to a row leaves its
\* derivative as it is (0.25 + 0.5 - 0.75 = 0), and the two series of a
\* distance enter it by their derivatives alone.
Anchored(d, m) == {s \in Series(d, m) : \A k \in 1..d : s.data[k][1] = 0}

\* univariate series of every length, too short ones included
Univariate == UNION {Anchored(1, m) : m \in 1..MaxLen}

\* series of several numbers of dimensions, of the shortest valid length
Multivariate == UNION {Anchored(d, 3) : d \in Dims}

Init ==
    /\ \E p \in (Univariate \X Univariate) \cup (Multivariate \X Multivariate) :
          x = p[1] /\ y = p[2]
    /\ closure = NoClosure
    /\ ret = NoRet
    /\ trace = <<>>
    /\ tIn = NoArray
    /\ tOut = <<NoArray, NoArray>>

Next ==
    \/ \E w \in Windows : DistanceFactory(w)
    \/ \E rcm \in BOOLEAN, w \in Windows : DistanceAlignmentPathFactory(rcm, w)
    \/ CallSame
    \/ CallOther

Spec == Init /\ [][Next]_vars

\* the transforms alone, on series of every shape
TransformInputs == UNION {Series(d, m) : d \in Dims, m \in 1..MaxLen}

InitTransform ==
    /\ x = NoArray /\ y = NoArray
    /\ closure = NoClosure
    /\ ret = NoRet
    /\ trace = <<>>
    /\ tIn \in TransformInputs
    /\ tOut = <<NoArray, NoArray>>

NextTransform == Transform

SpecTransform == InitTransform /\ [][NextTransform]_vars

---------------------------------------------------------------------------
(* What the claims speak of *)

\* a series long enough to have a derivative
Valid(s) == s.shape[2] >= 3

\* the callable has been called
Called == ret.status # "none"

\* ... on the series its factory was given: one call of an entry point
CalledSame == Called /\ ret.args = <<x, y>>

\* the lengths of the derivatives of the arguments of the last call
N1 == ret.args[1].shape[2] - 2
N2 == ret.args[2].shape[2] - 2

\* the distance entry point on (a, b): the factory on (a, b), its callable on (a, b)
DistanceOf(a, b, window) ==
    numba_ddtw_distance(FactoryBoundingMatrix(a, b, window), <<>>, a, b)

\* a mask that admits every cell of an (n1 x n2) grid
AllTrue(n1, n2) == create_bounding_matrix(n1, n2, <<>>)

\* the window is absent or 1.0
FullWindow(window) == window = <<>> \/ window = <<WinDen>>

\* p starts at (0, 0), ends at (n1-1, n2-1), and between consecutive pairs
\* each coordinate changes by 0 or 1 and one of them changes
WellFormedPath(p, n1, n2) ==
    /\ Len(p) >= 1
    /\ p[1] = <<0, 0>>
    /\ p[Len(p)] = <<n1 - 1, n2 - 1>>
    /\ \A k \in 1..(Len(p) - 1) :
          /\ p[k + 1][1] - p[k][1] \in {0, 1}
          /\ p[k + 1][2] - p[k][2] \in {0, 1}
          /\ p[k + 1] # p[k]

\* the place in the trace of the error a call raised
ErrorAt == CHOOSE k \in 1..Len(trace) : trace[k] \in {"ShapeError", "ValueError"}

---------------------------------------------------------------------------
(* The claims *)

C2_Identity ==
    (closure.kind = "distance" /\ CalledSame /\ x = y /\ Valid(x)) =>
        ret.status = "ok" /\ ret.returns = <<0>>

\* a series of five timepoints that is not constant, window 0
C2_Witness ==
    /\ closure.kind = "distance" /\ CalledSame /\ x = y
    /\ x.data = << <<0, 1, 0, 0, 1>> >>
    /\ closure.window = <<0>>
    /\ ret.returns = <<0>>

\* C3 as claimed: for valid x and y of one number of dimensions, of any
\* lengths, and any window, distance(x, y) = distance(y, x).
C3_SymmetryAnyWindow ==
    (closure.kind = "distance" /\ CalledSame /\ Valid(x) /\ Valid(y)
        /\ x.shape[1] = y.shape[1]) =>
        ret.returns = DistanceOf(y, x, closure.window).returns

\* C3 as amended: distance(x, y) = distance(y, x) when the two series have
\* the same length, and when the window is absent or 1.0.
C3_Symmetry ==
    (closure.kind = "distance" /\ CalledSame /\ Valid(x) /\ Valid(y)
        /\ x.shape[1] = y.shape[1]
        /\ (x.shape[2] = y.shape[2] \/ FullWindow(closure.window))) =>
        /\ ret.status = "ok"
        /\ ret.returns = DistanceOf(y, x, closure.window).returns

\* two different series of five timepoints under a window of 1/3, apart
C3_Witness ==
    /\ closure.kind = "distance" /\ CalledSame
    /\ x.shape = <<1, 5>> /\ y.shape = <<1, 5>> /\ x # y
    /\ closure.window = <<1>>
    /\ ret.status = "ok" /\ ret.returns[1] > 0

C5_MaskOfDerivativeLengths ==
    (closure.kind # "none" /\ Valid(x) /\ Valid(y)) =>
        closure.bounding_matrix =
            create_bounding_matrix(x.shape[2] - 2, y.shape[2] - 2, closure.window)

\* C6: the scalar of the path-mode callable is the scalar of the distance-mode
\* callable and the last cell of the cost matrix, and the path and the scalar
\* are the same with return_cost_matrix true and false: the flag only adds
\* the cost matrix as a third result.
C6_SameComputation ==
    (closure.kind = "path" /\ Called) =>
        LET bm   == ret.mask
            d    == numba_ddtw_distance(bm, ret.outside, ret.args[1], ret.args[2])
            with == numba_ddtw_distance_alignment_path_cm(
                        bm, ret.outside, ret.args[1], ret.args[2])
            wout == numba_ddtw_distance_alignment_path(
                        bm, ret.outside, ret.args[1], ret.args[2])
        IN  /\ ret.status = d.status
            /\ with.status = d.status /\ wout.status = d.status
            /\ ret.status = "ok" =>
                  /\ Len(d.returns) = 1
                  /\ ret.returns[2] = d.returns[1]
                  /\ Len(with.returns) = 3 /\ Len(wout.returns) = 2
                  /\ ret.returns[2] = LastCell(with.returns[3])
                  /\ with.returns[1] = wout.returns[1]
                  /\ with.returns[2] = wout.returns[2]
                  /\ ret.returns[1] = with.returns[1]
                  /\ Len(ret.returns) = IF closure.return_cost_matrix THEN 3 ELSE 2

\* a path-mode call that returns the cost matrix too, of a distance not 0
C6_Witness ==
    /\ closure.kind = "path" /\ closure.return_cost_matrix /\ Called
    /\ ret.status = "ok" /\ Len(ret.returns) = 3
    /\ ret.returns[2] # Inf /\ ret.returns[2] > 0
    /\ Len(ret.returns[1]) >= 3

C8_ShapeErrorBeforeAnyMatrix ==
    (CalledSame /\ Valid(x) /\ Valid(y) /\ x.shape[1] # y.shape[1]) =>
        /\ ret.status = "ShapeError"
        /\ \A k \in 1..(ErrorAt - 1) : trace[k] # "create_bounding_matrix"

\* C9: with the window 1.0 and with the window absent, the distance of valid
\* x and y is the distance computed with a mask that admits every cell of
\* the grid of the two derivatives.
C9_FullWindow ==
    (closure.kind = "distance" /\ CalledSame /\ Valid(x) /\ Valid(y)
        /\ x.shape[1] = y.shape[1] /\ FullWindow(closure.window)) =>
        LET dx == compute_derivative(x)
            dy == compute_derivative(y)
            full == dtw_cost_matrix(dx, dy, AllTrue(dx.shape[2], dy.shape[2]), <<>>)
        IN  /\ ret.status = "ok"
            /\ ret.returns = <<LastCell(full.grid)>>

\* series of three and five timepoints under the window 1.0, apart
C9_Witness ==
    /\ closure.kind = "distance" /\ CalledSame
    /\ x.shape = <<1, 3>> /\ y.shape = <<1, 5>>
    /\ closure.window = <<WinDen>>
    /\ ret.status = "ok" /\ ret.returns[1] # Inf /\ ret.returns[1] > 0

=============================================================================
